---- MODULE Spec2Model ----
(***************************************************************************)
(* Soroban-Registry: the CLI's `profile` command (cli/src/commands.rs),    *)
(* the profiler module it drives (Profiler, simulate_execution, finish,    *)
(* compare_profiles; serialisation of ProfileData), and the backend's      *)
(* incident handlers (backend/api/src/incident_handlers.rs).               *)
(*                                                                         *)
(* An Option<T> is a sequence of length at most one: <<>> is None and      *)
(* <<x>> is Some(x). Durations are natural numbers of nanoseconds.         *)
(* A percentage (an f64 in the program) is an integer number of            *)
(* hundredths of a percent.                                                *)
(***************************************************************************)
EXTENDS Integers, Sequences, FiniteSets, TLC

\* ------------------------------------------------------------------ bounds
\* Recorder calls (enter/exit) the simulator makes in one run.
MaxOps == 4
\* Rows of the incidents table.
MaxIncidents == 2
\* Largest total_time (ns) of a function in the exhaustive comparator inputs.
MaxTime == 2
\* Functions in the exhaustive comparator inputs.
SmallFuncs == 2
\* Largest stride of the total times in the large comparator inputs.
MaxStride == 3
\* Largest call_count in the round-trip inputs.
MaxCalls == 2

\* ------------------------------------------------------- program constants
\* commands.rs:249 and :280, `.take(10)`.
DisplayLimit == 10

Min(a, b) == IF a < b THEN a ELSE b
Abs(x) == IF x < 0 THEN -x ELSE x
\* Integer division truncating toward zero (Rust's `/` on integers; an f64
\* quotient cut to the model's fixed point).
TruncDiv(a, b) == IF a >= 0 THEN a \div b ELSE -((-a) \div b)

\* Function names, in a fixed reference order. The simulator uses the first
\* two; the comparator inputs use up to DisplayLimit + 2 of them.
AllNames == <<"f", "g", "h", "i", "j", "k", "l", "m", "n", "o", "p", "q">>
SimNames == {AllNames[1], AllNames[2]}
NameIndex(n) == CHOOSE i \in 1..Len(AllNames) : AllNames[i] = n

\* ---------------------------------------------------------------- sorting
\* Stable sort of a sequence of records by descending `key` (Rust's sort_by
\* is stable): an element is inserted after every element whose key is not
\* smaller.
RECURSIVE InsertDesc(_, _)
InsertDesc(s, e) ==
    IF s = <<>> THEN <<e>>
    ELSE IF Head(s).key >= e.key THEN <<Head(s)>> \o InsertDesc(Tail(s), e)
    ELSE <<e>> \o s

RECURSIVE SortDesc(_)
SortDesc(s) ==
    IF s = <<>> THEN <<>>
    ELSE InsertDesc(SortDesc(SubSeq(s, 1, Len(s) - 1)), s[Len(s)])

\* The order in which a map with key set S is iterated. The program leaves it
\* open; the model takes the reference order or its reverse.
Reverse(s) == [i \in 1..Len(s) |-> s[Len(s) + 1 - i]]
IterOrder(S, rev) ==
    LET fwd == SelectSeq(AllNames, LAMBDA n : n \in S)
    IN  IF rev THEN Reverse(fwd) ELSE fwd

\* iter().take(n)
Take(s, n) == SubSeq(s, 1, Min(Len(s), n))

\* ------------------------------------------------------- the Call Recorder
\* Time one enter/exit body takes; it is what the recorder adds to its
\* overhead total.
BookkeepingCost == 1

\* Profiler::new()
NewRecorder(now) ==
    [created_at |-> now, stack |-> <<>>, stats |-> <<>>, overhead |-> 0]

\* enter(name): push a frame, count the call at once.
RecEnter(rec, name, now) ==
    [rec EXCEPT
        !.stack = Append(@, [name |-> name, start |-> now, depth |-> Len(@)]),
        !.stats = IF name \in DOMAIN @
                  THEN [@ EXCEPT ![name].call_count = @ + 1]
                  ELSE @ @@ (name :> [call_count |-> 1, total_time |-> 0]),
        !.overhead = @ + BookkeepingCost]

\* exit(): with an empty call stack the call fails and changes nothing; else
\* the active frame is popped and its inclusive time added to its function.
RecExit(rec, now) ==
    IF rec.stack = <<>> THEN [ok |-> FALSE, rec |-> rec]
    ELSE LET top == rec.stack[Len(rec.stack)]
         IN  [ok |-> TRUE,
              rec |-> [rec EXCEPT
                  !.stack = SubSeq(@, 1, Len(@) - 1),
                  !.stats[top.name].total_time = @ + (now - top.start),
                  !.overhead = @ + BookkeepingCost]]

\* finish(contract_path, method), called with an empty call stack.
Finalize(rec, now, path, method) ==
    LET total == now - rec.created_at
    IN  [contract_path |-> path,
         method |-> method,
         total_duration |-> total,
         overhead_percent |-> TruncDiv(rec.overhead * 100 * 100, total),
         functions |-> [n \in DOMAIN rec.stats |->
             [name |-> n,
              call_count |-> rec.stats[n].call_count,
              total_time |-> rec.stats[n].total_time,
              avg_time |-> rec.stats[n].total_time \div rec.stats[n].call_count]]]

\* ---------------------------------------------------- the Profile Comparator
\* Classification threshold, percent.
ThresholdPercent == 5

TotalTimeIn(p, n) == IF n \in DOMAIN p.functions THEN p.functions[n].total_time ELSE 0

TimeDiffPercent(diff, base, snt) ==
    IF base = 0 THEN snt ELSE TruncDiv(diff * 100 * 100, base)

Classify(percent) ==
    IF percent > ThresholdPercent * 100 THEN "Regression"
    ELSE IF percent < -(ThresholdPercent * 100) THEN "Improvement"
    ELSE "Unchanged"

CompareOne(n, b, c, snt) ==
    LET bt == TotalTimeIn(b, n)
        ct == TotalTimeIn(c, n)
        pct == TimeDiffPercent(ct - bt, bt, snt)
    IN  [function |-> n, status |-> Classify(pct), time_diff_ns |-> ct - bt,
         time_diff_percent |-> pct, baseline_time |-> bt, current_time |-> ct]

\* (a faulty variant: only the current profile's functions are compared)
ComparedNamesCurrentOnly(b, c) == DOMAIN c.functions

\* The names compare_profiles makes an entry for.
ComparedNames(b, c) == DOMAIN b.functions \cup DOMAIN c.functions

\* Descending absolute time_diff_ns.
SortByAbsDiff(cs) ==
    LET keyed == [i \in 1..Len(cs) |-> [key |-> Abs(cs[i].time_diff_ns), item |-> cs[i]]]
        sorted == SortDesc(keyed)
    IN  [i \in 1..Len(cs) |-> sorted[i].item]

\* compare_profiles(baseline, current)
CompareProfiles(b, c, snt, rev) ==
    LET order == IterOrder(ComparedNames(b, c), rev)
    IN  SortByAbsDiff([i \in 1..Len(order) |-> CompareOne(order[i], b, c, snt)])

\* commands.rs:280, `comparisons.iter().take(10)`.
\* (a faulty variant: the entries are taken from the far end)
DisplayedOfFromEnd(cs) == Take(Reverse(cs), DisplayLimit)

DisplayedOf(cs) == Take(cs, DisplayLimit)

\* commands.rs:245-249, the names under "Top Functions".
TopFunctions(p, rev) ==
    LET order == IterOrder(DOMAIN p.functions, rev)
        keyed == [i \in 1..Len(order) |->
                     [key |-> p.functions[order[i]].total_time, item |-> order[i]]]
        sorted == Take(SortDesc(keyed), DisplayLimit)
    IN  [i \in 1..Len(sorted) |-> sorted[i].item]


\* ------------------------------------------- the profile exchange document
\* A document is the parsed JSON text: numbers are their decimal digits, a
\* Duration is {"secs", "nanos"}, an absent method is null (<<>>).
NanosPerSec == 1000000000

RECURSIVE ToDigits(_)
ToDigits(n) == IF n < 10 THEN <<n>> ELSE Append(ToDigits(n \div 10), n % 10)

RECURSIVE FromDigits(_)
FromDigits(d) ==
    IF d = <<>> THEN 0
    ELSE FromDigits(SubSeq(d, 1, Len(d) - 1)) * 10 + d[Len(d)]

\* (a faulty variant: the duration is written in whole seconds)
DurationToJsonSecsOnly(d) == [secs |-> ToDigits(d \div NanosPerSec), nanos |-> ToDigits(0)]

DurationToJson(d) == [secs |-> ToDigits(d \div NanosPerSec), nanos |-> ToDigits(d % NanosPerSec)]
DurationFromJson(j) == FromDigits(j.secs) * NanosPerSec + FromDigits(j.nanos)

\* A percentage is written with its two decimals.
PercentToJson(x) == [int |-> ToDigits(x \div 100), frac |-> <<(x % 100) \div 10, x % 10>>]
PercentFromJson(j) == FromDigits(j.int) * 100 + FromDigits(j.frac)

FunctionToJson(f) ==
    [name |-> f.name, call_count |-> ToDigits(f.call_count),
     total_time |-> DurationToJson(f.total_time), avg_time |-> DurationToJson(f.avg_time)]
FunctionFromJson(j) ==
    [name |-> j.name, call_count |-> FromDigits(j.call_count),
     total_time |-> DurationFromJson(j.total_time), avg_time |-> DurationFromJson(j.avg_time)]

\* serde_json::to_string_pretty(&profile_data), commands.rs:261.
ExportProfile(p) ==
    [contract_path |-> p.contract_path,
     method |-> p.method,
     total_duration |-> DurationToJson(p.total_duration),
     overhead_percent |-> PercentToJson(p.overhead_percent),
     functions |-> [n \in DOMAIN p.functions |-> FunctionToJson(p.functions[n])]]

ProfileFields == {"contract_path", "method", "total_duration", "overhead_percent", "functions"}

\* (a faulty variant: a document that does not parse yields an empty baseline)
ImportProfileOrDefault(doc) ==
    IF DOMAIN doc # ProfileFields
    THEN [ok |-> TRUE,
          value |-> [contract_path |-> "", method |-> <<>>, total_duration |-> 0,
                     overhead_percent |-> 0, functions |-> <<>>]]
    ELSE [ok |-> TRUE,
          value |-> [contract_path |-> doc.contract_path,
                     method |-> doc.method,
                     total_duration |-> DurationFromJson(doc.total_duration),
                     overhead_percent |-> PercentFromJson(doc.overhead_percent),
                     functions |-> [n \in DOMAIN doc.functions |->
                                       FunctionFromJson(doc.functions[n])]]]

\* serde_json::from_str::<ProfileData>(&baseline_json), commands.rs:275: a
\* document lacking a field of ProfileData is an error.
ImportProfile(doc) ==
    IF DOMAIN doc # ProfileFields
    THEN [ok |-> FALSE, value |-> <<>>]
    ELSE [ok |-> TRUE,
          value |-> [contract_path |-> doc.contract_path,
                     method |-> doc.method,
                     total_duration |-> DurationFromJson(doc.total_duration),
                     overhead_percent |-> PercentFromJson(doc.overhead_percent),
                     functions |-> [n \in DOMAIN doc.functions |->
                                       FunctionFromJson(doc.functions[n])]]]

\* generate_flame_graph: one rectangle per function, as wide as its time.
FlameGraph(p) == [n \in DOMAIN p.functions |-> p.functions[n].total_time]


VARIABLES
    pc,              \* position in `profile`
    args,            \* the command's arguments (and whether the path exists)
    result,          \* "running", "Ok" or the error `profile` returned
    clock,           \* the monotonic clock, ns
    nops,            \* recorder calls made by the simulator so far
    sim_result,      \* what simulate_execution returned: "none" until it returns
    profiler,        \* Option<Profiler>
    profile_data,    \* Option<ProfileData>: what `finish` returned
    top_functions,   \* names printed under "Top Functions"
    output_file,     \* Option<document>: the file written for --output
    flame_file,      \* Option<flame graph>: the file written for --flamegraph
    baseline_json,   \* Option<document>: what read_to_string returned
    baseline,        \* Option<ProfileData>: the deserialised baseline
    comparisons,     \* Option<Seq(Comparison)>: what compare_profiles returned
    displayed,       \* the comparison lines printed
    events,          \* the command's steps so far, in order
    misuse,          \* Option<recorder statistics>: set when exit() was called
                     \* on an empty call stack, to the statistics before the call
    sentinel,        \* the comparator's clamp value for a zero baseline
    rt_in, rt_doc, rt_out,   \* export/import round trip: input, document, result
    incidents,       \* the incidents table: id -> row
    db_now,          \* the database clock
    response         \* the last HTTP handler's outcome

cmdVars == <<pc, args, result, clock, nops, sim_result, profiler, profile_data, top_functions,
             output_file, flame_file, baseline_json, baseline, comparisons,
             displayed, events, misuse>>
rtVars == <<rt_in, rt_doc, rt_out>>
dbVars == <<incidents, db_now, response>>
vars == <<cmdVars, sentinel, rtVars, dbVars>>

\* ------------------------------------------------- the `profile` command
\* Time that passes before a recorder call or a clock read, ns.
TickChoices == {0, 1}

Sum2(times) ==
    LET t(n) == IF n \in DOMAIN times THEN times[n] ELSE 0
    IN  t(AllNames[1]) + t(AllNames[2])

\* A ProfileData with the given total_time per function, one call each.
MkProfile(times, total) ==
    [contract_path |-> "contract.wasm", method |-> <<>>,
     total_duration |-> total, overhead_percent |-> 0,
     functions |-> [n \in DOMAIN times |->
         [name |-> n, call_count |-> 1, total_time |-> times[n], avg_time |-> times[n]]]]

\* The files --compare may name: none, one that is no profile document, and
\* exported profiles.
BaselineTimes ==
    {<<>>, (AllNames[1] :> 0), (AllNames[1] :> 2) @@ (AllNames[2] :> 1), (AllNames[2] :> 3)}
BaselineFiles ==
    {[exists |-> FALSE, doc |-> [contract_path |-> ""]],
     [exists |-> TRUE, doc |-> [contract_path |-> "contract.wasm"]]}
    \cup {[exists |-> TRUE, doc |-> ExportProfile(MkProfile(t, Sum2(t) + 1))] : t \in BaselineTimes}

Log(e) == events' = Append(events, e)

\* The command touches neither the comparator's clamp value, nor the
\* round-trip harness, nor the incidents table.
CmdOnly == UNCHANGED <<sentinel, rt_in, rt_doc, rt_out, incidents, db_now, response>>

CmdInit ==
    /\ pc = "check"
    /\ args \in [contract_path : {"contract.wasm"}, path_exists : BOOLEAN,
                 method : {<<>>, <<"invoke">>}, output : BOOLEAN, flamegraph : BOOLEAN,
                 compare : BOOLEAN, show_recommendations : BOOLEAN]
    /\ result = "running"
    /\ clock = 0
    /\ nops = 0
    /\ sim_result = "none"
    /\ profiler = <<>>
    /\ profile_data = <<>>
    /\ top_functions = <<>>
    /\ output_file = <<>>
    /\ flame_file = <<>>
    /\ baseline_json = <<>>
    /\ baseline = <<>>
    /\ comparisons = <<>>
    /\ displayed = <<>>
    /\ events = <<>>
    /\ misuse = <<>>

\* (a faulty variant: the existence check is missing)
CheckPathSkipped ==
    /\ pc = "check"
    /\ CmdOnly
    /\ pc' = "new"
    /\ UNCHANGED <<sim_result, args, result, clock, nops, profiler, profile_data, top_functions,
                   output_file, flame_file, baseline_json, baseline, comparisons,
                   displayed, events, misuse>>

\* commands.rs:228-231
CheckPath ==
    /\ pc = "check"
    /\ CmdOnly
    /\ IF args.path_exists
       THEN pc' = "new" /\ result' = result
       ELSE pc' = "done" /\ result' = "NotFound"
    /\ UNCHANGED <<sim_result, args, clock, nops, profiler, profile_data, top_functions,
                   output_file, flame_file, baseline_json, baseline, comparisons,
                   displayed, events, misuse>>

\* (a faulty variant: the --output file is created before the run is timed)
NewProfilerOpensOutput ==
    /\ pc = "new"
    /\ CmdOnly
    /\ profiler' = <<NewRecorder(clock)>>
    /\ clock' = clock + 1
    /\ events' = events \o <<"Profiler::new", "write_profile">>
    /\ pc' = "simulate"
    /\ UNCHANGED <<sim_result, args, result, nops, profile_data, top_functions, output_file,
                   flame_file, baseline_json, baseline, comparisons, displayed, misuse>>

\* commands.rs:236
NewProfiler ==
    /\ pc = "new"
    /\ CmdOnly
    /\ profiler' = <<NewRecorder(clock)>>
    /\ clock' = clock + 1
    /\ Log("Profiler::new")
    /\ pc' = "simulate"
    /\ UNCHANGED <<sim_result, args, result, nops, profile_data, top_functions, output_file,
                   flame_file, baseline_json, baseline, comparisons, displayed, misuse>>

\* (a faulty variant: the simulator's error is dropped)
SimulateReturnIgnoringErr(r) == pc' = "finish" /\ result' = result

\* (a faulty variant: a recorder error is not treated as fatal)
SimulateReturnRecorderErrOk(r) ==
    IF r \in {"Ok", "RecorderMisuse"}
    THEN pc' = "finish" /\ result' = result
    ELSE pc' = "done" /\ result' = r

\* commands.rs:237, `simulate_execution(path, method, &mut profiler)?`
SimulateReturn(r) ==
    IF r = "Ok"
    THEN pc' = "finish" /\ result' = result
    ELSE pc' = "done" /\ result' = r

\* simulate_execution: a call of profiler.enter(name)
SimEnter(name, d) ==
    /\ pc = "simulate"
    /\ CmdOnly
    /\ nops < MaxOps
    /\ profiler' = <<RecEnter(profiler[1], name, clock + d)>>
    /\ clock' = clock + d + BookkeepingCost
    /\ nops' = nops + 1
    /\ UNCHANGED <<pc, sim_result, args, result, profile_data, top_functions, output_file,
                   flame_file, baseline_json, baseline, comparisons, displayed,
                   events, misuse>>

\* simulate_execution: a call of profiler.exit(); its error ends the simulation
SimExit(d) ==
    /\ pc = "simulate"
    /\ CmdOnly
    /\ nops < MaxOps
    /\ LET r == RecExit(profiler[1], clock + d)
       IN  /\ profiler' = <<r.rec>>
           /\ IF r.ok THEN pc' = pc /\ result' = result
              ELSE SimulateReturn("RecorderMisuse")
    /\ misuse' = IF profiler[1].stack = <<>> THEN <<profiler[1].stats>> ELSE misuse
    /\ sim_result' = IF RecExit(profiler[1], clock + d).ok THEN sim_result ELSE "RecorderMisuse"
    /\ clock' = clock + d + BookkeepingCost
    /\ nops' = nops + 1
    /\ UNCHANGED <<args, profile_data, top_functions, output_file, flame_file,
                   baseline_json, baseline, comparisons, displayed, events>>

\* simulate_execution stops early: the artifact is missing or unreadable
\* (before any recording), or the run is cancelled.
SimErrors == {"NotFound", "MalformedArtifact", "Cancelled"}
SimAbort(e) ==
    /\ pc = "simulate"
    /\ CmdOnly
    /\ e = "Cancelled" \/ nops = 0
    /\ sim_result' = e
    /\ SimulateReturn(e)
    /\ UNCHANGED <<args, clock, nops, profiler, profile_data, top_functions,
                   output_file, flame_file, baseline_json, baseline, comparisons,
                   displayed, events, misuse>>

\* simulate_execution returns Ok(())
SimOk ==
    /\ pc = "simulate"
    /\ CmdOnly
    /\ sim_result' = "Ok"
    /\ SimulateReturn("Ok")
    /\ UNCHANGED <<args, clock, nops, profiler, profile_data, top_functions,
                   output_file, flame_file, baseline_json, baseline, comparisons,
                   displayed, events, misuse>>

\* commands.rs:238, profiler.finish(..): it asserts that every frame was exited
\* and consumes the profiler.
Finish(d) ==
    /\ pc = "finish"
    /\ CmdOnly
    /\ IF profiler[1].stack # <<>>
       THEN /\ pc' = "done"
            /\ result' = "Panic"
            /\ UNCHANGED <<profiler, profile_data, events>>
       ELSE /\ profile_data' = <<Finalize(profiler[1], clock + d, args.contract_path, args.method)>>
            /\ profiler' = <<>>
            /\ Log("finish")
            /\ pc' = "summary"
            /\ result' = result
    /\ clock' = clock + d
    /\ UNCHANGED <<sim_result, args, nops, top_functions, output_file, flame_file,
                   baseline_json, baseline, comparisons, displayed, misuse>>

\* commands.rs:240-258
Summary(rev) ==
    /\ pc = "summary"
    /\ CmdOnly
    /\ top_functions' = TopFunctions(profile_data[1], rev)
    /\ Log("summary")
    /\ pc' = "export"
    /\ UNCHANGED <<sim_result, args, result, clock, nops, profiler, profile_data, output_file,
                   flame_file, baseline_json, baseline, comparisons, displayed, misuse>>

\* commands.rs:260-265; the write may fail
Export(ok) ==
    /\ pc = "export"
    /\ CmdOnly
    /\ IF ~args.output
       THEN pc' = "flamegraph" /\ UNCHANGED <<result, output_file, events>>
       ELSE /\ Log("write_profile")
            /\ IF ok
               THEN /\ output_file' = <<ExportProfile(profile_data[1])>>
                    /\ pc' = "flamegraph"
                    /\ result' = result
               ELSE /\ pc' = "done"
                    /\ result' = "IoError"
                    /\ UNCHANGED output_file
    /\ UNCHANGED <<sim_result, args, clock, nops, profiler, profile_data, top_functions,
                   flame_file, baseline_json, baseline, comparisons, displayed, misuse>>

\* commands.rs:267-270; the write may fail
WriteFlameGraph(ok) ==
    /\ pc = "flamegraph"
    /\ CmdOnly
    /\ IF ~args.flamegraph
       THEN pc' = "compare" /\ UNCHANGED <<result, flame_file, events>>
       ELSE /\ Log("write_flamegraph")
            /\ IF ok
               THEN /\ flame_file' = <<FlameGraph(profile_data[1])>>
                    /\ pc' = "compare"
                    /\ result' = result
               ELSE /\ pc' = "done"
                    /\ result' = "IoError"
                    /\ UNCHANGED flame_file
    /\ UNCHANGED <<sim_result, args, clock, nops, profiler, profile_data, top_functions,
                   output_file, baseline_json, baseline, comparisons, displayed, misuse>>

\* commands.rs:272-274
ReadBaseline(f) ==
    /\ pc = "compare"
    /\ CmdOnly
    /\ IF ~args.compare
       THEN pc' = "recommend" /\ UNCHANGED <<result, baseline_json, events>>
       ELSE /\ Log("read_baseline")
            /\ IF f.exists
               THEN /\ baseline_json' = <<f.doc>>
                    /\ pc' = "parse"
                    /\ result' = result
               ELSE /\ pc' = "done"
                    /\ result' = "IoError"
                    /\ UNCHANGED baseline_json
    /\ UNCHANGED <<sim_result, args, clock, nops, profiler, profile_data, top_functions,
                   output_file, flame_file, baseline, comparisons, displayed, misuse>>

\* commands.rs:275
ParseBaseline ==
    /\ pc = "parse"
    /\ CmdOnly
    /\ LET r == ImportProfile(baseline_json[1])
       IN  IF r.ok
           THEN baseline' = <<r.value>> /\ pc' = "diff" /\ result' = result
           ELSE pc' = "done" /\ result' = "SerializationError" /\ UNCHANGED baseline
    /\ UNCHANGED <<sim_result, args, clock, nops, profiler, profile_data, top_functions,
                   output_file, flame_file, baseline_json, comparisons, displayed,
                   events, misuse>>

\* commands.rs:277-292
Diff(rev) ==
    /\ pc = "diff"
    /\ CmdOnly
    /\ LET cs == CompareProfiles(baseline[1], profile_data[1], sentinel, rev)
       IN  comparisons' = <<cs>> /\ displayed' = DisplayedOf(cs)
    /\ Log("compare_profiles")
    /\ pc' = "recommend"
    /\ UNCHANGED <<sim_result, args, result, clock, nops, profiler, profile_data, top_functions,
                   output_file, flame_file, baseline_json, baseline, misuse>>

\* commands.rs:294-305
Recommend ==
    /\ pc = "recommend"
    /\ CmdOnly
    /\ IF args.show_recommendations THEN Log("recommendations") ELSE UNCHANGED events
    /\ pc' = "done"
    /\ result' = "Ok"
    /\ UNCHANGED <<sim_result, args, clock, nops, profiler, profile_data, top_functions,
                   output_file, flame_file, baseline_json, baseline, comparisons,
                   displayed, misuse>>

\* What the other parts of the model hold while the command runs.
SentinelChoices == {0, 1000000}
RtIdle == rt_in = <<>> /\ rt_doc = <<>> /\ rt_out = <<>>
DbIdle == incidents = <<>> /\ db_now = 0 /\ response = "none"

Init == CmdInit /\ sentinel \in SentinelChoices /\ RtIdle /\ DbIdle

CmdNext ==
    \/ CheckPath
    \/ NewProfiler
    \/ \E n \in SimNames, d \in TickChoices : SimEnter(n, d)
    \/ \E d \in TickChoices : SimExit(d)
    \/ \E e \in SimErrors : SimAbort(e)
    \/ SimOk
    \/ \E d \in TickChoices : Finish(d)
    \/ \E rev \in BOOLEAN : Summary(rev)
    \/ \E ok \in BOOLEAN : Export(ok)
    \/ \E ok \in BOOLEAN : WriteFlameGraph(ok)
    \/ \E f \in BaselineFiles : ReadBaseline(f)
    \/ ParseBaseline
    \/ \E rev \in BOOLEAN : Diff(rev)
    \/ Recommend

Next == CmdNext

Spec == Init /\ [][Next]_vars

\* ------------------------------------- compare_profiles on drawn profiles
\* The comparison step of the command, entered with a baseline and a current
\* profile drawn from two families: every profile over the first SmallFuncs
\* names with total times up to MaxTime, and profiles of more than
\* DisplayLimit functions whose times follow a stride.
NameSet(k) == {AllNames[i] : i \in 1..k}
SmallTimes ==
    UNION {[S -> 0..MaxTime] : S \in SUBSET NameSet(SmallFuncs)}
SmallProfiles == {MkProfile(t, (MaxTime * SmallFuncs) + 1) : t \in SmallTimes}

StrideTimes(k, stride, offset) ==
    [n \in NameSet(k) |-> (NameIndex(n) * stride + offset) % 7]
BigProfiles ==
    {MkProfile(StrideTimes(k, stride, offset), 100) :
        k \in {DisplayLimit + 1, DisplayLimit + 2}, stride \in 1..MaxStride, offset \in 0..1}

CompareInputs == (SmallProfiles \X SmallProfiles) \cup (BigProfiles \X BigProfiles)

CompareInit ==
    /\ \E in \in CompareInputs :
          /\ baseline = <<in[1]>>
          /\ baseline_json = <<ExportProfile(in[1])>>
          /\ profile_data = <<in[2]>>
          /\ top_functions = TopFunctions(in[2], FALSE)
    /\ pc = "diff"
    /\ args \in [contract_path : {"contract.wasm"}, path_exists : {TRUE},
                 method : {<<>>}, output : {FALSE}, flamegraph : {FALSE},
                 compare : {TRUE}, show_recommendations : BOOLEAN]
    /\ result = "running"
    /\ clock = 0
    /\ nops = 0
    /\ sim_result = "Ok"
    /\ profiler = <<>>
    /\ output_file = <<>>
    /\ flame_file = <<>>
    /\ comparisons = <<>>
    /\ displayed = <<>>
    /\ events = <<"Profiler::new", "finish", "summary", "read_baseline">>
    /\ misuse = <<>>
    /\ sentinel \in SentinelChoices
    /\ RtIdle
    /\ DbIdle

CompareNext ==
    \/ \E rev \in BOOLEAN : Diff(rev)
    \/ Recommend

SpecCompare == CompareInit /\ [][CompareNext]_vars

\* ------------------------------------------- export, then import
CmdIdle ==
    /\ pc = "idle"
    /\ args = [contract_path |-> "contract.wasm", path_exists |-> TRUE, method |-> <<>>,
               output |-> FALSE, flamegraph |-> FALSE, compare |-> FALSE,
               show_recommendations |-> FALSE]
    /\ result = "running"
    /\ clock = 0
    /\ nops = 0
    /\ sim_result = "none"
    /\ profiler = <<>>
    /\ profile_data = <<>>
    /\ top_functions = <<>>
    /\ output_file = <<>>
    /\ flame_file = <<>>
    /\ baseline_json = <<>>
    /\ baseline = <<>>
    /\ comparisons = <<>>
    /\ displayed = <<>>
    /\ events = <<>>
    /\ misuse = <<>>
    /\ sentinel = 0

DurationSamples == {0, 1, NanosPerSec - 1, NanosPerSec, 2 * NanosPerSec + 1}
PercentSamples == {0, 5, 1234, 10000}
FunctionSamples ==
    {[name |-> n, call_count |-> c, total_time |-> t, avg_time |-> t \div c] :
        n \in SimNames, c \in 1..MaxCalls, t \in DurationSamples}
FunctionMaps ==
    {<<>>} \cup {(f.name :> f) : f \in FunctionSamples}
    \cup {(f.name :> f) @@ (g.name :> g) :
            f \in {x \in FunctionSamples : x.name = AllNames[1] /\ x.call_count = 1},
            g \in {x \in FunctionSamples : x.name = AllNames[2] /\ x.call_count = MaxCalls}}
RoundTripProfiles ==
    [contract_path : {"contract.wasm"}, method : {<<>>, <<"invoke">>},
     total_duration : DurationSamples, overhead_percent : PercentSamples,
     functions : FunctionMaps]

RtOnly ==
    UNCHANGED <<pc, args, result, clock, nops, sim_result, profiler, profile_data,
                top_functions, output_file, flame_file, baseline_json, baseline,
                comparisons, displayed, events, misuse, sentinel, incidents, db_now,
                response>>

\* commands.rs:261
RtExport ==
    /\ rt_in # <<>> /\ rt_doc = <<>>
    /\ rt_doc' = <<ExportProfile(rt_in[1])>>
    /\ UNCHANGED <<rt_in, rt_out>>
    /\ RtOnly

\* commands.rs:275
RtImport ==
    /\ rt_doc # <<>> /\ rt_out = <<>>
    /\ rt_out' = <<ImportProfile(rt_doc[1])>>
    /\ UNCHANGED <<rt_in, rt_doc>>
    /\ RtOnly

RoundTripInit ==
    /\ CmdIdle
    /\ DbIdle
    /\ \E p \in RoundTripProfiles : rt_in = <<p>>
    /\ rt_doc = <<>>
    /\ rt_out = <<>>

RoundTripNext == RtExport \/ RtImport

SpecRoundTrip == RoundTripInit /\ [][RoundTripNext]_vars

\* ------------------------------------------------- the incident handlers
\* A row of `incidents`; a nullable column is an Option.
IncidentIds == 1..MaxIncidents
Null == <<>>

CreateRequests ==
    [contract_id : {Null, <<"c1">>}, incident_type : {"outage"},
     description : {"node down"}, start_time : {1}]

\* UpdateIncidentRequest bodies: no field, each field alone, and all fields,
\* with notified_users omitted, true or false.
UpdateFieldSamples ==
    {[end_time |-> e, rto_achieved |-> r, rpo_achieved |-> q, lessons_learned |-> l] :
        e \in {Null, <<9>>}, r \in {Null, <<"PT1H">>}, q \in {Null, <<"PT5M">>},
        l \in {Null, <<"notes">>}}
SetCount(f) ==
    (IF f.end_time # Null THEN 1 ELSE 0) + (IF f.rto_achieved # Null THEN 1 ELSE 0)
    + (IF f.rpo_achieved # Null THEN 1 ELSE 0) + (IF f.lessons_learned # Null THEN 1 ELSE 0)
UpdateRequests ==
    {[end_time |-> f.end_time, rto_achieved |-> f.rto_achieved,
      rpo_achieved |-> f.rpo_achieved, lessons_learned |-> f.lessons_learned,
      notified_users |-> u] :
        f \in {x \in UpdateFieldSamples : SetCount(x) \in {0, 1, 4}},
        u \in {Null, <<TRUE>>, <<FALSE>>}}

DbOnly ==
    UNCHANGED <<pc, args, result, clock, nops, sim_result, profiler, profile_data,
                top_functions, output_file, flame_file, baseline_json, baseline,
                comparisons, displayed, events, misuse, sentinel, rt_in, rt_doc, rt_out>>

\* incident_handlers.rs:52-77. The columns the INSERT does not name take the
\* table's defaults.
CreateIncident(req) ==
    /\ Cardinality(DOMAIN incidents) < MaxIncidents
    /\ LET id == Cardinality(DOMAIN incidents) + 1
       IN  incidents' = incidents @@ (id :>
               [id |-> id, contract_id |-> req.contract_id,
                incident_type |-> req.incident_type, description |-> req.description,
                start_time |-> req.start_time, end_time |-> Null,
                rto_achieved |-> Null, rpo_achieved |-> Null, lessons_learned |-> Null,
                notified_users |-> FALSE, created_at |-> db_now, updated_at |-> db_now])
    /\ db_now' = db_now + 1
    /\ response' = "ok"
    /\ DbOnly

\* COALESCE($5, notified_users)
Coalesce(opt, old) == IF opt # Null THEN opt[1] ELSE old

\* (a faulty variant: the UPDATE has no WHERE clause)
UpdateIncidentEveryRow(id, req) ==
    /\ IF id \in DOMAIN incidents
       THEN /\ incidents' = [i \in DOMAIN incidents |->
                   [incidents[i] EXCEPT
                       !.end_time = req.end_time,
                       !.rto_achieved = req.rto_achieved,
                       !.rpo_achieved = req.rpo_achieved,
                       !.lessons_learned = req.lessons_learned,
                       !.notified_users = Coalesce(req.notified_users, @)]]
            /\ response' = "ok"
       ELSE /\ UNCHANGED incidents
            /\ response' = "error"
    /\ UNCHANGED db_now
    /\ DbOnly

\* incident_handlers.rs:79-105. fetch_one on no row is an error.
UpdateIncident(id, req) ==
    /\ IF id \in DOMAIN incidents
       THEN /\ incidents' = [incidents EXCEPT ![id] =
                   [@ EXCEPT
                       !.end_time = req.end_time,
                       !.rto_achieved = req.rto_achieved,
                       !.rpo_achieved = req.rpo_achieved,
                       !.lessons_learned = req.lessons_learned,
                       !.notified_users = Coalesce(req.notified_users, @)]]
            /\ response' = "ok"
       ELSE /\ UNCHANGED incidents
            /\ response' = "error"
    /\ UNCHANGED db_now
    /\ DbOnly

\* incident_handlers.rs:107-131: a read.
ListIncidents ==
    /\ response' = "ok"
    /\ UNCHANGED <<incidents, db_now>>
    /\ DbOnly

IncidentInit == CmdIdle /\ RtIdle /\ DbIdle

IncidentNext ==
    \/ \E req \in CreateRequests : CreateIncident(req)
    \/ \E id \in IncidentIds, req \in UpdateRequests : UpdateIncident(id, req)
    \/ ListIncidents

SpecIncident == IncidentInit /\ [][IncidentNext]_vars

\* ------------------------------------------------------------ claims, Spec
InEvents(e) == \E i \in DOMAIN events : events[i] = e
IoEvents == {"write_profile", "write_flamegraph", "read_baseline"}

\* C1: when the contract path does not exist, `profile` fails with the
\* not-found error before a Profiler is created and before the simulator runs:
\* there is no recording step, no finish, no ProfileData, no export, no flame
\* graph and no comparison in such a run.
C1_NotFoundBeforeProfiler ==
    ~args.path_exists =>
        /\ pc \in {"check", "done"}
        /\ pc = "done" => result = "NotFound"
        /\ events = <<>>
        /\ profiler = <<>> /\ nops = 0 /\ sim_result = "none"
        /\ profile_data = <<>> /\ output_file = <<>> /\ flame_file = <<>>
        /\ baseline_json = <<>> /\ comparisons = <<>> /\ displayed = <<>>

C1_Witness == ~args.path_exists /\ pc = "done" /\ result = "NotFound"

\* C2: exit() on a recorder whose call stack is empty fails with
\* RecorderMisuse wherever in the sequence of enter/exit calls it happens: the
\* command returns that error, the recorder's statistics are those from before
\* the call, and finish is not called, so no ProfileData exists.
C2_ExitOnEmptyStackFails ==
    misuse # <<>> =>
        /\ sim_result = "RecorderMisuse"
        /\ pc = "done" /\ result = "RecorderMisuse"
        /\ profile_data = <<>> /\ ~InEvents("finish")
        /\ profiler # <<>> /\ profiler[1].stats = misuse[1]

C2_Witness ==
    /\ misuse # <<>> /\ misuse[1] # <<>>
    /\ result = "RecorderMisuse" /\ nops = 3

\* C3: when the simulator stops early with an error, the partly recorded state
\* is discarded: finish is not called on that recorder, no ProfileData exists,
\* and the summary, export, flame graph, comparison and recommendations do not
\* run; the command returns the simulator's error.
C3_SimulatorErrorDiscardsRun ==
    sim_result \notin {"none", "Ok"} =>
        /\ pc = "done" /\ result = sim_result
        /\ events = <<"Profiler::new">>
        /\ profile_data = <<>> /\ top_functions = <<>>
        /\ output_file = <<>> /\ flame_file = <<>>
        /\ baseline_json = <<>> /\ comparisons = <<>> /\ displayed = <<>>

C3_Witness ==
    /\ sim_result = "Cancelled" /\ pc = "done"
    /\ profiler # <<>> /\ profiler[1].stack # <<>> /\ profiler[1].stats # <<>>

BaselineUnusable ==
    /\ InEvents("read_baseline")
    /\ baseline_json = <<>> \/ DOMAIN baseline_json[1] # ProfileFields

\* C5: when a baseline is requested and its file cannot be read or is no
\* ProfileData document, the command returns the error and compare_profiles is
\* not invoked: no comparison is produced or displayed.
C5_BadBaselineRefused ==
    BaselineUnusable =>
        /\ pc \in {"parse", "done"}
        /\ pc = "done" => result \in {"IoError", "SerializationError"}
        /\ baseline = <<>> /\ comparisons = <<>> /\ displayed = <<>>
        /\ ~InEvents("compare_profiles") /\ ~InEvents("recommendations")

C5_Witness ==
    /\ baseline_json # <<>> /\ DOMAIN baseline_json[1] # ProfileFields
    /\ pc = "done" /\ result = "SerializationError"

\* ----------------------------------------------------- claims, SpecCompare
Entries == comparisons[1]
EntryNames == {Entries[i].function : i \in DOMAIN Entries}
ComparedSelf == comparisons # <<>> /\ baseline = profile_data

C7_UnionOfFunctions ==
    comparisons # <<>> =>
        /\ EntryNames = DOMAIN baseline[1].functions \cup DOMAIN profile_data[1].functions
        /\ Len(Entries) = Cardinality(EntryNames)
        /\ \A i \in DOMAIN Entries :
              Entries[i].function \notin DOMAIN baseline[1].functions =>
                  /\ Entries[i].baseline_time = 0
                  /\ Entries[i].current_time =
                        profile_data[1].functions[Entries[i].function].total_time
                  /\ Entries[i].time_diff_ns = Entries[i].current_time
                  /\ Entries[i].time_diff_percent = sentinel

C7_Witness ==
    /\ comparisons # <<>>
    /\ \E i \in DOMAIN Entries :
          /\ Entries[i].function \notin DOMAIN baseline[1].functions
          /\ Entries[i].time_diff_ns > 0
    /\ \E i \in DOMAIN Entries : Entries[i].function \notin DOMAIN profile_data[1].functions

\* C8: the sequence compare returns is sorted by descending absolute
\* time_diff_ns, and the command displays a prefix of it: at most DisplayLimit
\* entries, the first ones in order, so no entry left out has a larger
\* absolute time_diff_ns than a displayed one.
C8_SortedAndPrefixDisplayed ==
    comparisons # <<>> =>
        /\ \A i, j \in DOMAIN Entries :
              i < j => Abs(Entries[i].time_diff_ns) >= Abs(Entries[j].time_diff_ns)
        /\ Len(displayed) = Min(Len(Entries), DisplayLimit)
        /\ \A i \in DOMAIN displayed : displayed[i] = Entries[i]
        /\ \A i \in DOMAIN displayed : \A j \in DOMAIN Entries :
              j > Len(displayed) =>
                  Abs(Entries[j].time_diff_ns) <= Abs(displayed[i].time_diff_ns)

C8_Witness ==
    /\ comparisons # <<>>
    /\ Len(Entries) > DisplayLimit
    /\ Len(displayed) = DisplayLimit
    /\ Abs(Entries[1].time_diff_ns) > Abs(Entries[DisplayLimit].time_diff_ns)
    /\ Abs(Entries[DisplayLimit].time_diff_ns) > Abs(Entries[Len(Entries)].time_diff_ns)

UpdateEffect(id, req) ==
    /\ DOMAIN incidents' = DOMAIN incidents
    /\ \A i \in DOMAIN incidents : i # id => incidents'[i] = incidents[i]
    /\ incidents'[id].end_time = req.end_time
    /\ incidents'[id].rto_achieved = req.rto_achieved
    /\ incidents'[id].rpo_achieved = req.rpo_achieved
    /\ incidents'[id].lessons_learned = req.lessons_learned
    /\ incidents'[id].notified_users =
          IF req.notified_users = Null THEN incidents[id].notified_users
          ELSE req.notified_users[1]
    /\ \A col \in {"id", "contract_id", "incident_type", "description", "start_time",
                   "created_at", "updated_at"} :
          incidents'[id][col] = incidents[id][col]

\* C10: update_incident for an existing incident id changes only that
\* incident's end_time, rto_achieved, rpo_achieved and lessons_learned (each
\* becomes the request's value, null when omitted) and its notified_users (the
\* request's value when provided, unchanged when omitted); that incident's
\* other columns, and every other incident, stay as they were.
C10_UpdateChangesOnlyItsRow ==
    [][\A id \in IncidentIds, req \in UpdateRequests :
          (UpdateIncident(id, req) /\ id \in DOMAIN incidents) => UpdateEffect(id, req)]_vars

C10_Witness ==
    \E id, other \in DOMAIN incidents :
        /\ id # other
        /\ incidents[id].end_time # Null /\ incidents[id].lessons_learned = Null
        /\ incidents[id].notified_users
        /\ incidents[other].end_time = Null /\ incidents[other].contract_id # Null

====
